---- MODULE Spec2Model ----
(***************************************************************************)
(* Model of front-end/src/utils/api.js: the fetchJson primitive and the    *)
(* ten exported operations built on it.  One record per call holds the     *)
(* position of the call (before the call, awaiting fetch, awaiting         *)
(* response.json(), settled), the request it issued, the response it got   *)
(* and the way its promises settled.  The network, the server and the      *)
(* caller's AbortController are the environment.                           *)
(***************************************************************************)
EXTENDS Integers, Sequences, FiniteSets

VARIABLES calls, aborted, headers, console

vars == <<calls, aborted, headers, console>>

(***************************************************************************)
(* Bounds.                                                                 *)
(***************************************************************************)
MaxCalls == 2
MaxRows == 1

CallIds == 1..MaxCalls

(***************************************************************************)
(* JavaScript values, tagged by type.                                      *)
(***************************************************************************)
Undefined == [t |-> "undefined"]
Null == [t |-> "null"]
Str(s) == [t |-> "string", s |-> s]
Arr(items) == [t |-> "array", items |-> items]
Obj(fields) == [t |-> "object", fields |-> fields]
Err(name) == [t |-> "error", name |-> name]

\* JavaScript truthiness, as tested by `if (payload.error)`.
Truthy(v) ==
  CASE v.t = "undefined" -> FALSE
    [] v.t = "null" -> FALSE
    [] v.t = "string" -> v.s # ""
    [] OTHER -> TRUE

\* error.name as read by the catch block; a value that is not an Error has none.
NameOf(e) == IF e.t = "error" THEN e.name ELSE "undefined"

(***************************************************************************)
(* Reservations as the server sends them and as the UI wants them.         *)
(***************************************************************************)
RawDate == "2024-01-01T00:00:00.000Z"
ShortDate == "2024-01-01"
RawTime == "18:30:00"
ShortTime == "18:30"

Reservation(d, tm) == Obj([reservation_date |-> d, reservation_time |-> tm])

RawReservation == Reservation(RawDate, RawTime)

Reservations == {Reservation(d, tm) : d \in {RawDate, ShortDate}, tm \in {RawTime}}

Rows == UNION {[1..n -> Reservations] : n \in 0..MaxRows}

\* String.match(/\d\d\d\d-\d\d-\d\d/)[0] on the dates of the model.
MatchDate(s) == IF s = RawDate THEN ShortDate ELSE s

\* String.match(/[0-2]\d:[0-5]\d/)[0] on the times of the model.
MatchTime(s) == IF s = RawTime THEN ShortTime ELSE s

IsReservation(v) == v.t = "object" /\ DOMAIN v.fields = {"reservation_date", "reservation_time"}

\* A formatter either returns a value or throws.
Returned(v) == [threw |-> FALSE, value |-> v]
Threw(e) == [threw |-> TRUE, value |-> e]

FormatOne(fd, ft) == Obj([reservation_date |-> fd, reservation_time |-> ft])

\* Default export of ./format-reservation-date: the date of every reservation
\* of a list, or of a single reservation, cut down to YYYY-MM-DD.
formatDateModule(v) ==
  CASE v.t = "array" /\ (\A k \in DOMAIN v.items : IsReservation(v.items[k])) ->
         Returned(Arr([k \in DOMAIN v.items |->
            FormatOne(MatchDate(v.items[k].fields.reservation_date),
                      v.items[k].fields.reservation_time)]))
    [] IsReservation(v) ->
         Returned(FormatOne(MatchDate(v.fields.reservation_date), v.fields.reservation_time))
    [] OTHER -> Threw(Err("TypeError"))

\* Default export of ./format-reservation-time: the time of every reservation
\* of a list, or of a single reservation, cut down to HH:MM.
formatTimeModule(v) ==
  CASE v.t = "array" /\ (\A k \in DOMAIN v.items : IsReservation(v.items[k])) ->
         Returned(Arr([k \in DOMAIN v.items |->
            FormatOne(v.items[k].fields.reservation_date,
                      MatchTime(v.items[k].fields.reservation_time))]))
    [] IsReservation(v) ->
         Returned(FormatOne(v.fields.reservation_date, MatchTime(v.fields.reservation_time)))
    [] OTHER -> Threw(Err("TypeError"))

\* import formatReservationDate from "./format-reservation-date";
formatReservationDate(v) == formatDateModule(v)

\* import formatReservationTime from "./format-reservation-date";
formatReservationTime(v) == formatDateModule(v)

(***************************************************************************)
(* Requests: the url and the options each operation hands to fetchJson.    *)
(***************************************************************************)
API_BASE_URL == "http://localhost:5001"

Url(path, query) == [base |-> API_BASE_URL, path |-> path, query |-> query]

Num(n) == [t |-> "number", n |-> n]

\* value.toString() on the parameter values of the model.
toString(v) ==
  CASE v.t = "string" -> v.s
    [] v.t = "number" -> (CASE v.n = 1 -> "1" [] v.n = 2 -> "2" [] OTHER -> "NaN")
    [] OTHER -> "undefined"

\* JSON.stringify: the text of a value, kept apart from the value itself.
JSONstringify(v) == [t |-> "json-text", of |-> v]

Options(method, body, signal) ==
  [method |-> method, headers |-> headers, body |-> body, signal |-> signal]

Request(url, options, onCancel) == [url |-> url, options |-> options, onCancel |-> onCancel]

\* Object.entries(params).forEach(([key, value]) => url.searchParams.append(...))
SearchParams(params) == [k \in DOMAIN params |-> <<params[k][1], toString(params[k][2])>>]

\* fetch without a method issues a GET.
listReservations(params, signal) ==
  Request(Url(<<"reservations">>, SearchParams(params)), Options("GET", Undefined, signal), Arr(<<>>))

\* listTables without its third argument to fetchJson.
listTablesNoFallback(signal) ==
  Request(Url(<<"tables">>, <<>>), Options("GET", Undefined, signal), Undefined)

listTables(signal) ==
  Request(Url(<<"tables">>, <<>>), Options("GET", Undefined, signal), Arr(<<>>))

createReservation(newReservation, signal) ==
  Request(Url(<<"reservations">>, <<>>),
          Options("POST", JSONstringify(Obj([data |-> newReservation])), signal), Undefined)

createTable(newTable, signal) ==
  Request(Url(<<"tables">>, <<>>),
          Options("POST", JSONstringify(Obj([data |-> newTable])), signal), Undefined)

readReservations(id, signal) ==
  Request(Url(<<"reservations", id>>, <<>>), Options("GET", Undefined, signal), Arr(<<>>))

seatTable(tableId, reservationId, signal) ==
  Request(Url(<<"tables", tableId, "seat">>, <<>>),
          Options("PUT", JSONstringify(Obj([data |-> Obj([reservation_id |-> Str(reservationId)])])), signal),
          Undefined)

clearTable(tableId, signal) ==
  Request(Url(<<"tables", tableId, "seat">>, <<>>), Options("DELETE", Undefined, signal), Undefined)

searchReservationsByPhone(phoneNumber, signal) ==
  Request(Url(<<"reservations">>, <<<<"mobile_number", phoneNumber>>>>),
          Options("GET", Undefined, signal), Arr(<<>>))

cancelReservation(reservationId, signal) ==
  Request(Url(<<"reservations", reservationId, "status">>, <<>>),
          Options("PUT", JSONstringify(Obj([data |-> Obj([status |-> Str("cancelled")])])), signal),
          Undefined)

editReservation(reservationId, updatedReservation, signal) ==
  Request(Url(<<"reservations", reservationId>>, <<>>),
          Options("PUT", JSONstringify(Obj([data |-> updatedReservation])), signal), Undefined)

(***************************************************************************)
(* What a caller may invoke: an operation and its arguments.               *)
(***************************************************************************)
Signals == {"s1", "s2"}
NoSignal == "none"

ParamLists == {<<>>, <<<<"date", Str(ShortDate)>>>>, <<<<"date", Str(ShortDate)>>, <<"page", Num(2)>>>>}

Table == Obj([table_name |-> Str("Bar #1"), capacity |-> Num(2)])

Invocations ==
  {[op |-> "listReservations", params |-> p] : p \in ParamLists}
  \cup {[op |-> "listTables"]}
  \cup {[op |-> "createReservation", newReservation |-> r] : r \in Reservations}
  \cup {[op |-> "createTable", newTable |-> Table]}
  \cup {[op |-> "readReservations", id |-> "42"]}
  \cup {[op |-> "seatTable", tableId |-> "7", reservationId |-> "42"]}
  \cup {[op |-> "clearTable", tableId |-> "7"]}
  \cup {[op |-> "searchReservationsByPhone", phoneNumber |-> "555"]}
  \cup {[op |-> "cancelReservation", reservationId |-> "42"]}
  \cup {[op |-> "editReservation", reservationId |-> "42", updatedReservation |-> RawReservation]}

\* The request the invoked operation builds.
RequestOf(inv, signal) ==
  CASE inv.op = "listReservations" -> listReservations(inv.params, signal)
    [] inv.op = "listTables" -> listTables(signal)
    [] inv.op = "createReservation" -> createReservation(inv.newReservation, signal)
    [] inv.op = "createTable" -> createTable(inv.newTable, signal)
    [] inv.op = "readReservations" -> readReservations(inv.id, signal)
    [] inv.op = "seatTable" -> seatTable(inv.tableId, inv.reservationId, signal)
    [] inv.op = "clearTable" -> clearTable(inv.tableId, signal)
    [] inv.op = "searchReservationsByPhone" -> searchReservationsByPhone(inv.phoneNumber, signal)
    [] inv.op = "cancelReservation" -> cancelReservation(inv.reservationId, signal)
    [] inv.op = "editReservation" -> editReservation(inv.reservationId, inv.updatedReservation, signal)

(***************************************************************************)
(* Responses of the server.                                                *)
(***************************************************************************)
NoContent == 204

Statuses == {200, 201, NoContent, 400, 404, 500}

DataValues == {Arr(rows) : rows \in Rows} \cup {RawReservation}

ErrorValues == {Str(""), Str("Not found")}

\* The envelopes { data?, error? }: each field present or absent.
Envelopes ==
  {Obj([data |-> d, error |-> e]) : d \in DataValues, e \in ErrorValues}
  \cup {Obj([data |-> d]) : d \in DataValues}
  \cup {Obj([error |-> e]) : e \in ErrorValues}
  \cup {Obj(<<>>)}

Malformed == [kind |-> "malformed"]
Json(v) == [kind |-> "json", value |-> v]

\* A body is text that does not parse, or the text of a JSON value.
Bodies == {Malformed, Json(Null)} \cup {Json(e) : e \in Envelopes}

Responses == [status : Statuses, body : Bodies]

NoResponse == [status |-> 0, body |-> Malformed]

\* payload.field: undefined when the object has no such field.
Get(obj, field) == IF field \in DOMAIN obj.fields THEN obj.fields[field] ELSE Undefined

(***************************************************************************)
(* Promises.                                                               *)
(***************************************************************************)
Pending == [state |-> "pending", value |-> Undefined]
Fulfilled(v) == [state |-> "fulfilled", value |-> v]
Rejected(e) == [state |-> "rejected", value |-> e]

\* promise.then(f), given what f makes of the value of the promise: f runs
\* on a fulfilled promise only; what f throws rejects.
Then(p, r) ==
  IF p.state = "fulfilled"
    THEN IF r.threw THEN Rejected(r.value) ELSE Fulfilled(r.value)
    ELSE p

(***************************************************************************)
(* fetchJson, block by block.  A block yields the way the promise of       *)
(* fetchJson settles and what it writes to the console.                    *)
(***************************************************************************)
Settlement(p, log) == [promise |-> p, log |-> log]

\* The catch block with the test of error.name left out: every error is thrown on.
CatchBlockRethrowsAll(error, onCancel) == Settlement(Rejected(error), <<error>>)

\* The catch block with the rethrow left out: every error yields the fallback.
CatchBlockSwallowsAll(error, onCancel) == Settlement(Fulfilled(onCancel), <<>>)

\* catch (error) { ... }
CatchBlock(error, onCancel) ==
  IF NameOf(error) # "AbortError"
    THEN Settlement(Rejected(error), <<error>>)
    ELSE Settlement(Fulfilled(onCancel), <<>>)

\* The payload block with `return { message: payload.error }` for the rejection.
PayloadBlockReturnsError(payload, onCancel) ==
  IF payload.t # "object"
    THEN CatchBlock(Err("TypeError"), onCancel)
    ELSE IF Truthy(Get(payload, "error"))
      THEN Settlement(Fulfilled(Obj([message |-> Get(payload, "error")])), <<>>)
      ELSE Settlement(Fulfilled(Get(payload, "data")), <<>>)

\* The payload block with `return payload` for `return payload.data`.
PayloadBlockReturnsPayload(payload, onCancel) ==
  IF payload.t # "object"
    THEN CatchBlock(Err("TypeError"), onCancel)
    ELSE IF Truthy(Get(payload, "error"))
      THEN Settlement(Rejected(Obj([message |-> Get(payload, "error")])), <<>>)
      ELSE Settlement(Fulfilled(payload), <<>>)

\* if (payload.error) { return Promise.reject(...) } return payload.data;
\* reading a field of null throws a TypeError, which the catch block gets.
PayloadBlock(payload, onCancel) ==
  IF payload.t # "object"
    THEN CatchBlock(Err("TypeError"), onCancel)
    ELSE IF Truthy(Get(payload, "error"))
      THEN Settlement(Rejected(Obj([message |-> Get(payload, "error")])), <<>>)
      ELSE Settlement(Fulfilled(Get(payload, "data")), <<>>)

\* The status test with 200 for 204.
IsNoContentTests200(response) == response.status = 200

\* if (response.status === 204) { return null; }
IsNoContent(response) == response.status = NoContent

(***************************************************************************)
(* What each operation does with the promise of fetchJson.                 *)
(***************************************************************************)
\* .then(formatReservationDate).then(formatReservationTime)
thenFormat(fj) ==
  LET dated == Then(fj, formatReservationDate(fj.value))
  IN Then(dated, formatReservationTime(dated.value))

\* createReservation with `return await fetchJson(url, options)`.
thenSeatedReturnsData(fj) == fj

\* await fetchJson(url, options); return "seated"
thenSeated(fj) == IF fj.state = "fulfilled" THEN Fulfilled(Str("seated")) ELSE fj

\* return await fetchJson(url, options)
returnAwait(fj) == fj

FormattingOps == {"listReservations", "readReservations", "searchReservationsByPhone"}

ResultOf(op, fj) ==
  CASE op \in FormattingOps -> thenFormat(fj)
    [] op = "createReservation" -> thenSeated(fj)
    [] OTHER -> returnAwait(fj)

(***************************************************************************)
(* State.                                                                  *)
(***************************************************************************)
NoInvocation == [op |-> "none"]

NoRequest == Request(Url(<<>>, <<>>), [method |-> "none"], Undefined)

\* A call before it is made.
Idle ==
  [pc |-> "idle", inv |-> NoInvocation, signal |-> NoSignal, request |-> NoRequest,
   response |-> NoResponse, caught |-> Undefined, fj |-> Pending, result |-> Pending,
   fetches |-> 0, parses |-> 0, settles |-> 0]

\* const headers = new Headers(); headers.append("Content-Type", "application/json");
HeadersInit == Append(<<>>, <<"Content-Type", "application/json">>)

Init ==
  /\ calls = [i \in CallIds |-> Idle]
  /\ aborted = [s \in Signals |-> FALSE]
  /\ headers = HeadersInit
  /\ console = <<>>

\* The signal of call i has been triggered.
Aborted(i) == calls[i].signal # NoSignal /\ aborted[calls[i].signal]

\* The promise of fetchJson settles, and with it the promise of the operation.
Settled(c, error, settlement) ==
  [c EXCEPT !.pc = "done",
            !.caught = error,
            !.fj = settlement.promise,
            !.result = ResultOf(c.inv.op, settlement.promise),
            !.settles = @ + 1]

\* Settling through one module-level promise: every call in flight settles
\* with the call that settles.
SettleShared(i, c, error, settlement) ==
  /\ calls' = [j \in CallIds |->
       IF j = i THEN Settled(c, error, settlement)
       ELSE IF calls[j].pc \in {"fetch", "json"} THEN Settled(calls[j], error, settlement)
       ELSE calls[j]]
  /\ console' = console \o settlement.log
  /\ UNCHANGED <<aborted, headers>>

Settle(i, c, error, settlement) ==
  /\ calls' = [calls EXCEPT ![i] = Settled(c, error, settlement)]
  /\ console' = console \o settlement.log
  /\ UNCHANGED <<aborted, headers>>

\* An exported operation is called: it builds its request and fetchJson
\* calls fetch(url, options).
Call(i, inv, signal) ==
  /\ calls[i].pc = "idle"
  /\ calls' = [calls EXCEPT ![i] =
       [@ EXCEPT !.pc = "fetch",
                 !.inv = inv,
                 !.signal = signal,
                 !.request = RequestOf(inv, signal),
                 !.fetches = @ + 1]]
  /\ UNCHANGED <<aborted, headers, console>>

\* The caller triggers a cancellation signal.
Abort(s) ==
  /\ ~aborted[s]
  /\ aborted' = [aborted EXCEPT ![s] = TRUE]
  /\ UNCHANGED <<calls, headers, console>>

\* await fetch(...) yields a response: 204 returns null, anything else
\* goes on to response.json().
FetchResponds(i, response) ==
  /\ calls[i].pc = "fetch"
  /\ ~Aborted(i)
  /\ IF IsNoContent(response)
       THEN Settle(i, [calls[i] EXCEPT !.response = response], Undefined,
                   Settlement(Fulfilled(Null), <<>>))
       ELSE /\ calls' = [calls EXCEPT ![i] =
                 [@ EXCEPT !.pc = "json", !.response = response, !.parses = @ + 1]]
            /\ UNCHANGED <<aborted, headers, console>>

\* await fetch(...) throws: the network failed.
FetchFails(i) ==
  /\ calls[i].pc = "fetch"
  /\ ~Aborted(i)
  /\ Settle(i, calls[i], Err("TypeError"), CatchBlock(Err("TypeError"), calls[i].request.onCancel))

\* await fetch(...) throws an AbortError: the signal was triggered.
FetchAborts(i) ==
  /\ calls[i].pc = "fetch"
  /\ Aborted(i)
  /\ Settle(i, calls[i], Err("AbortError"), CatchBlock(Err("AbortError"), calls[i].request.onCancel))

\* await response.json() yields the parsed body.
JsonResolves(i) ==
  /\ calls[i].pc = "json"
  /\ ~Aborted(i)
  /\ calls[i].response.body.kind = "json"
  /\ LET payload == calls[i].response.body.value
     IN Settle(i, calls[i], IF payload.t # "object" THEN Err("TypeError") ELSE Undefined,
               PayloadBlock(payload, calls[i].request.onCancel))

\* await response.json() throws: the body is not JSON (SyntaxError) or the
\* connection broke while the body was read (TypeError).
JsonFails(i, error) ==
  /\ calls[i].pc = "json"
  /\ ~Aborted(i)
  /\ error.name = "SyntaxError" => calls[i].response.body.kind = "malformed"
  /\ Settle(i, calls[i], error, CatchBlock(error, calls[i].request.onCancel))

\* await response.json() throws an AbortError: the signal was triggered
\* while the body was read.
JsonAborts(i) ==
  /\ calls[i].pc = "json"
  /\ Aborted(i)
  /\ Settle(i, calls[i], Err("AbortError"), CatchBlock(Err("AbortError"), calls[i].request.onCancel))

JsonErrors == {Err("SyntaxError"), Err("TypeError")}

Next ==
  \/ \E inv \in Invocations, s \in Signals \cup {NoSignal} : Call(1, inv, s)
  \/ \E s \in Signals : Abort(s)
  \/ \E r \in Responses : FetchResponds(1, r)
  \/ FetchFails(1)
  \/ FetchAborts(1)
  \/ JsonResolves(1)
  \/ \E e \in JsonErrors : JsonFails(1, e)
  \/ JsonAborts(1)

Spec == Init /\ [][Next]_vars

(***************************************************************************)
(* Several calls in flight at once, their events in any interleaving, on   *)
(* a smaller choice of operations and responses.                           *)
(***************************************************************************)
ConcInvocations ==
  {[op |-> "listReservations", params |-> <<>>],
   [op |-> "createReservation", newReservation |-> RawReservation]}

ConcResponses ==
  {[status |-> NoContent, body |-> Malformed],
   [status |-> 200, body |-> Malformed],
   [status |-> 200, body |-> Json(Obj([data |-> Arr(<<RawReservation>>)]))],
   [status |-> 500, body |-> Json(Obj([error |-> Str("Not found")]))]}

NextConc ==
  \/ \E i \in CallIds, inv \in ConcInvocations, s \in Signals \cup {NoSignal} : Call(i, inv, s)
  \/ \E s \in Signals : Abort(s)
  \/ \E i \in CallIds, r \in ConcResponses : FetchResponds(i, r)
  \/ \E i \in CallIds : FetchFails(i)
  \/ \E i \in CallIds : FetchAborts(i)
  \/ \E i \in CallIds : JsonResolves(i)
  \/ \E i \in CallIds, e \in JsonErrors : JsonFails(i, e)
  \/ \E i \in CallIds : JsonAborts(i)

SpecConc == Init /\ [][NextConc]_vars

(***************************************************************************)
(* Properties.                                                             *)
(***************************************************************************)
Done(i) == calls[i].pc = "done"

\* response.json() of call i yielded an envelope, and the call went on from it.
ParsedEnvelope(i) ==
  /\ Done(i)
  /\ calls[i].response # NoResponse
  /\ calls[i].response.status # 204
  /\ calls[i].caught = Undefined
  /\ calls[i].response.body.kind = "json"
  /\ calls[i].response.body.value.t = "object"

PayloadOf(i) == calls[i].response.body.value

HasField(i, field) == field \in DOMAIN PayloadOf(i).fields

\* C1: a call whose response is not a 204 and whose envelope has a truthy
\* `error` rejects with { message: error }, whatever the status and whether
\* or not `data` is there too; so does the operation built on it.
C1_ErrorEnvelopeRejects ==
  \A i \in CallIds :
    (ParsedEnvelope(i) /\ Truthy(Get(PayloadOf(i), "error"))) =>
      /\ calls[i].fj.state = "rejected"
      /\ calls[i].fj.value = Obj([message |-> PayloadOf(i).fields.error])
      /\ calls[i].result = calls[i].fj

\* A 200 response with both `data` and a truthy `error` has been rejected.
C1_Witness ==
  \E i \in CallIds :
    /\ ParsedEnvelope(i)
    /\ calls[i].response.status = 200
    /\ HasField(i, "data")
    /\ Truthy(Get(PayloadOf(i), "error"))
    /\ calls[i].fj.state = "rejected"

\* C2: a call that settles while its signal is triggered, the abort coming
\* out of fetch or of response.json(), is fulfilled with its fallback value.
C2_AbortResolvesFallback ==
  [][\A i \in CallIds :
       (calls[i].pc \in {"fetch", "json"} /\ Aborted(i) /\ calls'[i].pc = "done") =>
         calls'[i].fj = Fulfilled(calls[i].request.onCancel)]_vars

\* An abort while the body was read has been answered with the fallback [].
C2_Witness ==
  \E i \in CallIds :
    /\ Done(i)
    /\ calls[i].caught = Err("AbortError")
    /\ calls[i].parses = 1
    /\ calls[i].request.onCancel = Arr(<<>>)
    /\ calls[i].fj = Fulfilled(Arr(<<>>))

ListingOps == FormattingOps \cup {"listTables"}

C4_NoContentIsNull ==
  \A i \in CallIds :
    (calls[i].response # NoResponse /\ calls[i].response.status = 204) =>
      /\ Done(i)
      /\ calls[i].fj = Fulfilled(Null)
      /\ calls[i].parses = 0

\* A 204 whose body carries a truthy `error` has been fulfilled with null.
C4_Witness ==
  \E i \in CallIds :
    /\ Done(i)
    /\ calls[i].response.status = 204
    /\ calls[i].response.body.kind = "json"
    /\ calls[i].response.body.value.t = "object"
    /\ Truthy(Get(calls[i].response.body.value, "error"))
    /\ calls[i].fj = Fulfilled(Null)

C6_BadStatusRejects ==
  \A i \in CallIds :
    (Done(i) /\ calls[i].response # NoResponse /\ calls[i].response.status \notin 200..399) =>
      calls[i].fj.state = "rejected"

\* A 404 response has been received and the call has been fulfilled.
C6_Reached ==
  \E i \in CallIds :
    /\ ParsedEnvelope(i)
    /\ calls[i].response.status = 404
    /\ calls[i].fj.state = "fulfilled"

C8_DateThenTimeFormat ==
  \A i \in CallIds :
    (Done(i) /\ calls[i].inv.op \in FormattingOps /\ calls[i].result.state = "fulfilled") =>
      /\ ~formatDateModule(calls[i].fj.value).threw
      /\ calls[i].result.value =
           formatTimeModule(formatDateModule(calls[i].fj.value).value).value

\* A list with a reservation in it has come back through listReservations.
C8_Reached ==
  \E i \in CallIds :
    /\ Done(i)
    /\ calls[i].inv.op = "listReservations"
    /\ calls[i].result.state = "fulfilled"
    /\ calls[i].result.value.t = "array"
    /\ calls[i].result.value.items # <<>>

\* C9: an error from fetch or from response.json() that is not an
\* AbortError rejects the call with that very error, never fulfils it with
\* the fallback, and a call issues exactly one network request whatever
\* its outcome.
C9_ErrorsSurfaceNoRetry ==
  \A i \in CallIds :
    /\ calls[i].fetches = (IF calls[i].pc = "idle" THEN 0 ELSE 1)
    /\ (Done(i) /\ calls[i].caught.t = "error" /\ calls[i].caught.name # "AbortError") =>
         /\ calls[i].fj.state = "rejected"
         /\ calls[i].fj.value = calls[i].caught

\* A body that is not JSON has rejected a call that has a fallback with the
\* SyntaxError, after one request.
C9_Witness ==
  \E i \in CallIds :
    /\ Done(i)
    /\ calls[i].caught = Err("SyntaxError")
    /\ calls[i].request.onCancel = Arr(<<>>)
    /\ calls[i].fj = Rejected(Err("SyntaxError"))
    /\ calls[i].fetches = 1

\* C10, the state part: the shared headers hold Content-Type:
\* application/json and nothing else, a call settles at most once, an
\* AbortError reaches only a call whose own signal was triggered, and what a
\* call that parsed its body settled with comes from its own response.
C10_State ==
  /\ headers = <<<<"Content-Type", "application/json">>>>
  /\ \A i \in CallIds :
       /\ calls[i].settles = (IF Done(i) THEN 1 ELSE 0)
       /\ ~Done(i) => (calls[i].fj = Pending /\ calls[i].result = Pending)
       /\ Done(i) => (calls[i].fj # Pending /\ calls[i].result # Pending)
       /\ calls[i].caught = Err("AbortError") => Aborted(i)
       /\ calls[i].pc # "idle" => calls[i].request.options.headers = <<<<"Content-Type", "application/json">>>>
       /\ ParsedEnvelope(i) =>
            calls[i].fj \in {Fulfilled(Get(PayloadOf(i), "data")),
                             Rejected(Obj([message |-> Get(PayloadOf(i), "error")]))}

\* C10, the step part: a step changes at most one call, and never a call
\* that has settled.
C10_Step ==
  /\ Cardinality({i \in CallIds : calls'[i] # calls[i]}) <= 1
  /\ \A i \in CallIds : Done(i) => calls'[i] = calls[i]

\* C10: with several calls in flight and their responses, failures and
\* aborts in any interleaving, the outcome of a call depends on its own
\* response, failure and signal only, every call settles exactly once, and
\* the shared headers stay Content-Type: application/json.
C10_CallsAreIsolated == [](C10_State) /\ [][C10_Step]_vars

\* Two calls are settled: one cancelled through its signal, the other, on
\* another signal, rejected by the server's error after that.
C10_Witness ==
  \E i, j \in CallIds :
    /\ i # j
    /\ Done(i) /\ Done(j)
    /\ calls[i].caught = Err("AbortError")
    /\ calls[j].signal \in Signals
    /\ calls[j].signal # calls[i].signal
    /\ calls[j].fj = Rejected(Obj([message |-> Str("Not found")]))

====
